---- MODULE Spec2Model ----
(***************************************************************************)
(* Container resource-metrics normalisation of the CRI plugin:             *)
(*   server   : containerMetrics, cpuContainerStats, memoryContainerStats, *)
(*              processContainerStats, getWorkingSet(V2),                  *)
(*              isMemoryUnlimited, getAvailableBytes(V2)                   *)
(*   sbserver : containerUnstructuredMetrics,                              *)
(*              generatedUnstructuredContainerMetrics,                     *)
(*              generatedCPUContainerMetrics, setContainerStats,           *)
(*              ListPodSandboxMetrics                                      *)
(*                                                                         *)
(* Go values are represented as follows.                                   *)
(*   pointer / optional  : Nil = <<>>, a non-nil pointer to x = <<x>>      *)
(*   uint64 (memory)     : four 16-bit limbs, most significant first, so   *)
(*                         that 1<<62 and wrap-around modulo 2^64 are      *)
(*                         exact (TLC integers are 32 bits wide)           *)
(*   uint64 (cpu, pids)  : naturals drawn from small sets in which no      *)
(*                         operation of the code can wrap                  *)
(*   error               : the chain of messages, outermost first;         *)
(*                         nil = <<>>                                      *)
(*   call outcome        : [panic, err, val]; panic is a Go run-time panic *)
(*                         (nil pointer dereference)                       *)
(***************************************************************************)
EXTENDS Integers, Sequences, FiniteSets, TLC

\* ------------------------------------------------------------------ values

Nil == <<>>

Some(x) == <<x>>

NoErr == <<>>

Ret(v) == [panic |-> FALSE, err |-> NoErr, val |-> v]

Fail(e) == [panic |-> FALSE, err |-> e, val |-> Nil]

Panic == [panic |-> TRUE, err |-> NoErr, val |-> Nil]

\* fmt.Errorf("msg: %w", err)
Wrap(msg, e) == <<msg>> \o e

\* ------------------------------------------------------------------ uint64

Limb == 2^16

U64FromNat(n) == <<0, 0, n \div Limb, n % Limb>>

U64Zero == U64FromNat(0)

\* a < b on uint64
U64Less(a, b) ==
    \/ a[1] < b[1]
    \/ a[1] = b[1] /\ a[2] < b[2]
    \/ a[1] = b[1] /\ a[2] = b[2] /\ a[3] < b[3]
    \/ a[1] = b[1] /\ a[2] = b[2] /\ a[3] = b[3] /\ a[4] < b[4]

U64Leq(a, b) == a = b \/ U64Less(a, b)

\* a - b on uint64: Go's unsigned subtraction wraps modulo 2^64
U64Sub(a, b) ==
    LET d4 == a[4] - b[4]
        w4 == IF d4 < 0 THEN 1 ELSE 0
        d3 == a[3] - b[3] - w4
        w3 == IF d3 < 0 THEN 1 ELSE 0
        d2 == a[2] - b[2] - w3
        w2 == IF d2 < 0 THEN 1 ELSE 0
        d1 == a[1] - b[1] - w2
    IN  <<d1 % Limb, d2 % Limb, d3 % Limb, d4 % Limb>>

\* a + b on uint64, modulo 2^64
U64Add(a, b) ==
    LET s4 == a[4] + b[4]
        s3 == a[3] + b[3] + (s4 \div Limb)
        s2 == a[2] + b[2] + (s3 \div Limb)
        s1 == a[1] + b[1] + (s2 \div Limb)
    IN  <<s1 % Limb, s2 % Limb, s3 % Limb, s4 % Limb>>

\* ------------------------------------------------------------------ memory

\* const maxMemorySize = uint64(1 << 62)
maxMemorySize == <<2^14, 0, 0, 0>>

isMemoryUnlimited_Geq(v) == U64Leq(maxMemorySize, v)

\* return v > maxMemorySize
isMemoryUnlimited(v) == U64Less(maxMemorySize, v)

\* getWorkingSet without the comparison that guards the subtraction
getWorkingSet_Unguarded(memory) ==
    IF memory.Usage = Nil THEN U64Zero
    ELSE U64Sub(memory.Usage[1].Usage, memory.TotalInactiveFile)

\* memory is a v1.MemoryStat
getWorkingSet(memory) ==
    IF memory.Usage = Nil THEN U64Zero
    ELSE IF U64Less(memory.TotalInactiveFile, memory.Usage[1].Usage)
         THEN U64Sub(memory.Usage[1].Usage, memory.TotalInactiveFile)
         ELSE U64Zero

\* memory is a v2.MemoryStat
getWorkingSetV2(memory) ==
    IF U64Less(memory.InactiveFile, memory.Usage)
    THEN U64Sub(memory.Usage, memory.InactiveFile)
    ELSE U64Zero

\* memory.Usage is dereferenced: the caller has checked it is not nil
getAvailableBytes(memory, workingSetBytes) ==
    IF ~isMemoryUnlimited(memory.Usage[1].Limit)
    THEN U64Sub(memory.Usage[1].Limit, workingSetBytes)
    ELSE U64Zero

getAvailableBytesV2(memory, workingSetBytes) ==
    IF ~isMemoryUnlimited(memory.UsageLimit)
    THEN U64Sub(memory.UsageLimit, workingSetBytes)
    ELSE U64Zero

\* stats is the decoded payload [kind, CPU, Memory, Pids]; kind is the Go
\* dynamic type: "v1" (*v1.Metrics), "v2" (*v2.Metrics) or "other"
memoryContainerStats(ID, stats, timestamp) ==
    IF stats.kind = "v1" THEN
        IF stats.Memory # Nil /\ stats.Memory[1].Usage # Nil THEN
            LET m == stats.Memory[1]
                workingSetBytes == getWorkingSet(m)
            IN  Ret(Some([Timestamp       |-> timestamp,
                          WorkingSetBytes |-> Some(workingSetBytes),
                          AvailableBytes  |-> Some(getAvailableBytes(m, workingSetBytes)),
                          UsageBytes      |-> Some(m.Usage[1].Usage),
                          RssBytes        |-> Some(m.TotalRSS),
                          PageFaults      |-> Some(m.TotalPgFault),
                          MajorPageFaults |-> Some(m.TotalPgMajFault),
                          MemoryCache     |-> Some(m.Cache),
                          MemoryFailcnt   |-> Some(m.Usage[1].Failcnt),
                          MaxUsageBytes   |-> Some(m.Usage[1].Max)]))
        ELSE Ret(Nil)
    ELSE IF stats.kind = "v2" THEN
        IF stats.Memory # Nil THEN
            LET m == stats.Memory[1]
                workingSetBytes == getWorkingSetV2(m)
            IN  Ret(Some([Timestamp       |-> timestamp,
                          WorkingSetBytes |-> Some(workingSetBytes),
                          AvailableBytes  |-> Some(getAvailableBytesV2(m, workingSetBytes)),
                          UsageBytes      |-> Some(m.Usage),
                          RssBytes        |-> Some(m.Anon),
                          PageFaults      |-> Some(m.Pgfault),
                          MajorPageFaults |-> Some(m.Pgmajfault),
                          MemoryCache     |-> Some(m.File),
                          MemoryFailcnt   |-> Nil,
                          MaxUsageBytes   |-> Nil]))
        ELSE Ret(Nil)
    ELSE Fail(<<"unexpected metrics type">>)

\* ------------------------------------------------------------------ cpu, pids

\* the constant TasksState both branches of cpuContainerStats fill in
TasksStateOnes ==
    [SleepingTasks |-> Some(1), RunningTasks |-> Some(1), StoppedTasks |-> Some(1),
     UninterruptibleTasks |-> Some(1), IowaitingTasks |-> Some(1)]

\* server, case *v1.Metrics: the branch reads metrics.CPU.Throttling.ThrottledPeriods
\* after checking only CPU and CPU.Usage, so a nil Throttling is a nil dereference
cpuContainerStatsV1(stats, timestamp) ==
    IF stats.CPU # Nil /\ stats.CPU[1].Usage # Nil THEN
        IF stats.CPU[1].Throttling = Nil THEN Panic
        ELSE
        LET usage == stats.CPU[1].Usage[1]
            throttling == stats.CPU[1].Throttling[1]
        IN  Ret(Some([Timestamp                   |-> timestamp,
                      UsageCoreNanoSeconds        |-> Some(usage.Total),
                      UsageNanoCores              |-> Some(1),
                      CpuCfsThrottledPeriodsTotal |-> Some(throttling.ThrottledPeriods),
                      CpuCfsThrottledSecondsTotal |-> Some(throttling.ThrottledTime),
                      CpuSystemSecondsTotal       |-> Some(usage.Kernel),
                      CpuUsageSecondsTotal        |-> Some(usage.Total),
                      CpuUserSecondsTotal         |-> Some(usage.User),
                      TasksState                  |-> TasksStateOnes]))
    ELSE Ret(Nil)

\* server, case *v2.Metrics
cpuContainerStatsV2(stats, timestamp) ==
    IF stats.CPU # Nil THEN
        LET cpu == stats.CPU[1]
            usageCoreNanoSeconds == cpu.UsageUsec * 1000
        IN  Ret(Some([Timestamp                   |-> timestamp,
                      UsageCoreNanoSeconds        |-> Some(usageCoreNanoSeconds),
                      UsageNanoCores              |-> Some(1),
                      CpuCfsThrottledPeriodsTotal |-> Some(cpu.NrPeriods),
                      CpuCfsThrottledSecondsTotal |-> Some(cpu.NrThrottled),
                      CpuSystemSecondsTotal       |-> Some(cpu.SystemUsec),
                      CpuUsageSecondsTotal        |-> Some(cpu.UsageUsec),
                      CpuUserSecondsTotal         |-> Some(cpu.UserUsec),
                      TasksState                  |-> TasksStateOnes]))
    ELSE Ret(Nil)

\* the type switch without its *v2.Metrics case
cpuContainerStats_NoV2(ID, isSandbox, stats, timestamp) ==
    IF stats.kind = "v1" THEN cpuContainerStatsV1(stats, timestamp)
    ELSE Fail(<<"unexpected metrics type">>)

\* server: the type switch on the decoded payload
cpuContainerStats(ID, isSandbox, stats, timestamp) ==
    IF stats.kind = "v1" THEN cpuContainerStatsV1(stats, timestamp)
    ELSE IF stats.kind = "v2" THEN cpuContainerStatsV2(stats, timestamp)
    ELSE Fail(<<"unexpected metrics type">>)

processContainerStats(ID, stats, timestamp) ==
    IF stats.kind \in {"v1", "v2"} THEN
        IF stats.Pids # Nil THEN
            Ret(Some([Timestamp    |-> timestamp,
                      ThreadsMax   |-> Some(stats.Pids[1].Limit),
                      ThreadsCount |-> Some(stats.Pids[1].Current)]))
        ELSE Ret(Nil)
    ELSE Fail(<<"unexpected metrics type">>)

prometheusMetrics ==
    Ret(Some([Label       |-> [Name  |-> "danielye: prometheus dummy metric name",
                               Value |-> "danielye: prometheus dummy metric value"],
              Gauge       |-> 1,
              Type        |-> "COUNTER",
              TimestampMs |-> 17]))

\* time.Second / time.Nanosecond
Second == 1000000000

\* sbserver: the extractor behind generatedUnstructuredContainerMetrics
\* (called there as generatedCPUContainerStats, same parameters)
generatedCPUContainerMetrics(ID, isSandbox, stats, timestamp) ==
    IF stats.kind = "v1" THEN
        IF stats.CPU # Nil /\ stats.CPU[1].Usage # Nil THEN
            IF stats.CPU[1].Throttling = Nil THEN Panic
            ELSE
            LET usage == stats.CPU[1].Usage[1]
                throttling == stats.CPU[1].Throttling[1]
            IN  Ret(Some([CpuCfsThrottledPeriodsTotal |-> throttling.ThrottledPeriods,
                          CpuCfsThrottledSecondsTotal |-> throttling.ThrottledTime \div Second,
                          CpuSystemSecondsTotal       |-> usage.Kernel,
                          CpuUsageSecondsTotal        |-> usage.Total,
                          CpuUserSecondsTotal         |-> usage.User]))
        ELSE Ret(Nil)
    ELSE IF stats.kind = "v2" THEN
        IF stats.CPU # Nil THEN
            LET cpu == stats.CPU[1]
            IN  Ret(Some([CpuCfsThrottledPeriodsTotal |-> cpu.NrPeriods,
                          CpuCfsThrottledSecondsTotal |-> cpu.NrThrottled \div Second,
                          CpuSystemSecondsTotal       |-> cpu.SystemUsec,
                          CpuUsageSecondsTotal        |-> cpu.UsageUsec,
                          CpuUserSecondsTotal         |-> cpu.UserUsec]))
        ELSE Ret(Nil)
    ELSE Fail(<<"unexpected metrics type">>)

\* sbserver: called as generatedMemoryContainerStats, same parameters
generatedMemoryContainerMetrics(ID, stats, timestamp) ==
    IF stats.kind = "v1" THEN
        IF stats.Memory # Nil /\ stats.Memory[1].Usage # Nil THEN
            Ret(Some([MemoryCache   |-> stats.Memory[1].Cache,
                      MemoryFailCnt |-> stats.Memory[1].Usage[1].Failcnt,
                      MaxUsageBytes |-> stats.Memory[1].Usage[1].Max]))
        ELSE Ret(Nil)
    ELSE IF stats.kind = "v2" THEN
        IF stats.Memory # Nil THEN
            Ret(Some([MemoryCache   |-> stats.Memory[1].Cache,
                      MemoryFailCnt |-> U64Zero,
                      MaxUsageBytes |-> U64Zero]))
        ELSE Ret(Nil)
    ELSE Fail(<<"unexpected metrics type">>)

\* ------------------------------------------------------------------ stores

\* typeurl.UnmarshalAny(stats.Data): the payload decodes to its Go value, or
\* the envelope names no registered type
UnmarshalAny(data) ==
    IF data.kind = "undecodable" THEN Fail(<<"type not registered">>)
    ELSE Ret(data)

\* store.Get(id) of the container and sandbox stores
StoreGet(store, id) ==
    IF store[id] = Nil THEN Fail(<<"not found">>) ELSE Ret(store[id][1])

\* store.UpdateContainerStats(id, cs): the record's Stats now points to cs
StoreUpdateContainerStats(store, id, cs) ==
    IF store[id] = Nil THEN [err |-> <<"not found">>, store |-> store]
    ELSE [err |-> NoErr, store |-> [store EXCEPT ![id] = Some([Stats |-> Some(cs)])]]

\* c.snapshotStore.Get(id): the snapshot, or its zero value and an error
SnapshotGet(snapshots, id) ==
    IF snapshots[id] = Nil
    THEN [err |-> <<"not found">>, val |-> [Size |-> 0, Inodes |-> 0, Timestamp |-> 0]]
    ELSE [err |-> NoErr, val |-> snapshots[id][1]]

\* c.imageFSPath
imageFSPath == "/var/lib/containerd/io.containerd.snapshotter.v1.overlayfs"

\* the zero value of the CPU part of stats.ContainerStats
ZeroCpuStats ==
    [Timestamp |-> 0, UsageCoreNanoSeconds |-> 0, UsageNanoCores |-> 0, PeriodsTotal |-> 0,
     CpuCfsThrottledPeriodsTotal |-> 0, CpuCfsThrottledSecondsTotal |-> 0,
     CpuSystemSecondsTotal |-> 0, CpuUsageSecondsTotal |-> 0, CpuUserSecondsTotal |-> 0]

\* the zero value of stats.ContainerMemoryStats
ZeroMemoryStats ==
    [Timestamp |-> 0, WorkingSetBytes |-> U64Zero, AvailableBytes |-> U64Zero,
     UsageBytes |-> U64Zero, RssBytes |-> U64Zero, PageFaults |-> U64Zero,
     MajorPageFaults |-> U64Zero, MemoryCache |-> U64Zero, MemoryFailCnt |-> U64Zero,
     MaxUsageBytes |-> U64Zero]

\* var cs containerstorestats.ContainerStats
ZeroContainerStats ==
    [Timestamp                |-> 0,
     UsageCoreNanoSeconds     |-> 0,
     ContainerCPUStats        |-> ZeroCpuStats,
     ContainerMemoryStats     |-> ZeroMemoryStats,
     ContainerFileSystemStats |-> [Timestamp |-> 0, FsID |-> [Mountpoint |-> ""],
                                   UsedBytes |-> 0, InodesUsed |-> 0]]

\* the fields of a struct literal over the zero value of its type
Overlay(zero, lit) ==
    [f \in DOMAIN zero |-> IF f \in DOMAIN lit THEN lit[f] ELSE zero[f]]

\* ------------------------------------------------------------------ sbserver

\* the write of setContainerStats: only when no earlier Stats were read
setContainerStats_write(cstore, sstore, containerID, isSandbox, cs, oldStats) ==
    IF oldStats = Nil THEN
        IF isSandbox THEN
            LET u == StoreUpdateContainerStats(sstore, containerID, cs)
            IN  IF u.err # NoErr
                THEN [err |-> Wrap("failed to update sandbox stats container ID", u.err),
                      containerStore |-> cstore, sandboxStore |-> sstore]
                ELSE [err |-> NoErr, containerStore |-> cstore, sandboxStore |-> u.store]
        ELSE
            LET u == StoreUpdateContainerStats(cstore, containerID, cs)
            IN  IF u.err # NoErr
                THEN [err |-> Wrap("failed to update container stats ID", u.err),
                      containerStore |-> cstore, sandboxStore |-> sstore]
                ELSE [err |-> NoErr, containerStore |-> u.store, sandboxStore |-> sstore]
    ELSE [err |-> NoErr, containerStore |-> cstore, sandboxStore |-> sstore]

\* the read of setContainerStats: oldStats, or the store's error
setContainerStats_read(cstore, sstore, containerID, isSandbox) ==
    IF isSandbox THEN
        LET g == StoreGet(sstore, containerID)
        IN  IF g.err # NoErr
            THEN Fail(Wrap("failed to get sandbox container", g.err))
            ELSE Ret(g.val.Stats)
    ELSE
        LET g == StoreGet(cstore, containerID)
        IN  IF g.err # NoErr
            THEN Fail(Wrap("failed to get container ID", g.err))
            ELSE Ret(g.val.Stats)

\* one uninterrupted run of setContainerStats
setContainerStats(cstore, sstore, containerID, isSandbox, cs) ==
    LET r == setContainerStats_read(cstore, sstore, containerID, isSandbox)
    IN  IF r.err # NoErr
        THEN [err |-> r.err, containerStore |-> cstore, sandboxStore |-> sstore]
        ELSE setContainerStats_write(cstore, sstore, containerID, isSandbox, cs, r.val)

\* lines 81-96 with the test of the lookup's error inverted
FileSystemStatsOf_ErrInverted(snapshots, meta) ==
    LET sn == SnapshotGet(snapshots, meta.ID)
        usedBytes == IF sn.err # NoErr THEN sn.val.Size ELSE 0
        inodesUsed == IF sn.err # NoErr THEN sn.val.Inodes ELSE 0
    IN  [ZeroContainerStats EXCEPT
            !.ContainerFileSystemStats =
                [Timestamp  |-> 0,
                 FsID       |-> [Mountpoint |-> imageFSPath],
                 UsedBytes  |-> usedBytes,
                 InodesUsed |-> inodesUsed]]

\* lines 81-96: cs with the writable-layer usage of the snapshot store
FileSystemStatsOf(snapshots, meta) ==
    LET sn == SnapshotGet(snapshots, meta.ID)
        usedBytes == IF sn.err = NoErr THEN sn.val.Size ELSE 0
        inodesUsed == IF sn.err = NoErr THEN sn.val.Inodes ELSE 0
    IN  [ZeroContainerStats EXCEPT
            !.ContainerFileSystemStats =
                [Timestamp  |-> 0,
                 FsID       |-> [Mountpoint |-> imageFSPath],
                 UsedBytes  |-> usedBytes,
                 InodesUsed |-> inodesUsed]]

\* lines 109-119: the extraction that follows setContainerStats; cs.X = *p
\* dereferences the extractor's result, nil when the sub-structure is absent
ExtractInto(cs, meta, s, timestamp) ==
    LET cpuStats == generatedCPUContainerMetrics(meta.ID, FALSE, s, timestamp)
        memoryStats == generatedMemoryContainerMetrics(meta.ID, s, timestamp)
    IN  IF cpuStats.panic THEN Panic
        ELSE IF cpuStats.err # NoErr
        THEN Fail(Wrap("failed to obtain cpu stats", cpuStats.err))
        ELSE IF cpuStats.val = Nil THEN Panic
        ELSE IF memoryStats.panic THEN Panic
        ELSE IF memoryStats.err # NoErr
        THEN Fail(Wrap("failed to obtain memory stats", memoryStats.err))
        ELSE IF memoryStats.val = Nil THEN Panic
        ELSE Ret(Some([cs EXCEPT
                 !.ContainerCPUStats = Overlay(ZeroCpuStats, cpuStats.val[1]),
                 !.ContainerMemoryStats = Overlay(ZeroMemoryStats, memoryStats.val[1])]))

\* one uninterrupted run; the outcome carries the stores it leaves behind
generatedUnstructuredContainerMetrics(cstore, sstore, snapshots, meta, stats) ==
    LET cs == FileSystemStatsOf(snapshots, meta)
        same(o) == [panic |-> o.panic, err |-> o.err, val |-> o.val,
                    containerStore |-> cstore, sandboxStore |-> sstore]
    IN  IF stats = Nil THEN same(Ret(Some(cs)))
        ELSE
        LET s == UnmarshalAny(stats[1].Data)
            set == setContainerStats(cstore, sstore, meta.ID, FALSE, cs)
        IN  IF s.err # NoErr
            THEN same(Fail(Wrap("failed to extract container metrics", s.err)))
            ELSE IF set.err # NoErr
            THEN [panic |-> FALSE, err |-> Wrap("failed to set container stats", set.err),
                  val |-> Nil,
                  containerStore |-> set.containerStore, sandboxStore |-> set.sandboxStore]
            ELSE
            LET o == ExtractInto(cs, meta, s.val, stats[1].Timestamp)
            IN  [panic |-> o.panic, err |-> o.err, val |-> o.val,
                 containerStore |-> set.containerStore, sandboxStore |-> set.sandboxStore]

\* runtime.ContainerAttributes of a container
AttributesOf(meta) ==
    [Id |-> meta.ID, Metadata |-> meta.Metadata, Labels |-> meta.Labels,
     Annotations |-> meta.Annotations]

\* the outcome carries the stores the call leaves behind
containerUnstructuredMetrics(cstore, sstore, snapshots, meta, stats) ==
    LET g == generatedUnstructuredContainerMetrics(cstore, sstore, snapshots, meta, stats)
    IN  IF g.panic THEN g
        ELSE IF g.err # NoErr
        THEN [g EXCEPT !.err = Wrap("failed to extract container metrics", g.err),
                       !.val = Nil]
        ELSE
        LET generatedMetrics == g.val[1]
            cpu == generatedMetrics.ContainerCPUStats
            mem == generatedMetrics.ContainerMemoryStats
            fs == generatedMetrics.ContainerFileSystemStats
        IN  [g EXCEPT !.val = Some(
                [Attributes    |-> Some(AttributesOf(meta)),
                 Cpu           |-> Some([Timestamp            |-> cpu.Timestamp,
                                         UsageCoreNanoSeconds |-> Some(cpu.UsageCoreNanoSeconds),
                                         UsageNanoCores       |-> Some(cpu.UsageNanoCores)]),
                 Memory        |-> Some([Timestamp       |-> mem.Timestamp,
                                         WorkingSetBytes |-> Some(mem.WorkingSetBytes),
                                         AvailableBytes  |-> Some(mem.AvailableBytes),
                                         UsageBytes      |-> Some(mem.UsageBytes),
                                         RssBytes        |-> Some(mem.RssBytes),
                                         PageFaults      |-> Some(mem.PageFaults),
                                         MajorPageFaults |-> Some(mem.MajorPageFaults)]),
                 WritableLayer |-> Some([Timestamp  |-> fs.Timestamp,
                                         FsId       |-> Some([Mountpoint |-> fs.FsID.Mountpoint]),
                                         UsedBytes  |-> Some(fs.UsedBytes),
                                         InodesUsed |-> Some(fs.InodesUsed)]),
                 Process          |-> Nil,
                 PrometheusMetric |-> Nil])]

\* ------------------------------------------------------------------ server

\* lines 246-287: the writable layer and the attributes, set before stats is read
BaseContainerStats(snapshots, meta) ==
    LET sn == SnapshotGet(snapshots, meta.ID)
        usedBytes == IF sn.err = NoErr THEN sn.val.Size ELSE 0
        inodesUsed == IF sn.err = NoErr THEN sn.val.Inodes ELSE 0
    IN  [WritableLayer |->
             Some([Timestamp       |-> sn.val.Timestamp,
                   FsId            |-> Some([Mountpoint |-> imageFSPath]),
                   UsedBytes       |-> Some(usedBytes),
                   InodesUsed      |-> Some(inodesUsed),
                   Device          |-> "a",
                   FsType          |-> "a",
                   LimitBytes      |-> Some(1),
                   UsageBytes      |-> Some(1),
                   BaseUsage       |-> Some(1),
                   AvailableBytes  |-> Some(1),
                   HasInodes       |-> FALSE,
                   InodeCapacity   |-> Some(1),
                   InodesAvailable |-> Some(1),
                   ReadsCompleted  |-> Some(1),
                   ReadsMerged     |-> Some(1),
                   SectorsRead     |-> Some(1),
                   ReadTime        |-> Some(1),
                   WritesCompleted |-> Some(1),
                   WritesMerged    |-> Some(1),
                   SectorsWritten  |-> Some(1),
                   WriteTime       |-> Some(1),
                   IoInProgress    |-> Some(1),
                   IoTime          |-> Some(1),
                   WeightedIoTime  |-> Some(1)]),
         Attributes       |-> Some(AttributesOf(meta)),
         Cpu              |-> Nil,
         Memory           |-> Nil,
         Process          |-> Nil,
         PrometheusMetric |-> Nil]

containerMetrics(snapshots, meta, stats) ==
    LET cs == BaseContainerStats(snapshots, meta)
    IN  IF stats = Nil THEN Ret(Some(cs))
        ELSE
        LET s == UnmarshalAny(stats[1].Data)
            timestamp == stats[1].Timestamp
            cpuStats == cpuContainerStats(meta.ID, FALSE, s.val, timestamp)
            memoryStats == memoryContainerStats(meta.ID, s.val, timestamp)
            processStats == processContainerStats(meta.ID, s.val, timestamp)
            metricStats == prometheusMetrics
        IN  IF s.err # NoErr
            THEN Fail(Wrap("failed to extract container metrics", s.err))
            ELSE IF cpuStats.panic THEN Panic
            ELSE IF cpuStats.err # NoErr
            THEN Fail(Wrap("failed to obtain cpu stats", cpuStats.err))
            ELSE IF memoryStats.panic THEN Panic
            ELSE IF memoryStats.err # NoErr
            THEN Fail(Wrap("failed to obtain memory stats", memoryStats.err))
            ELSE IF processStats.panic THEN Panic
            ELSE IF processStats.err # NoErr
            THEN Fail(Wrap("failed to obtain process stats", processStats.err))
            ELSE IF metricStats.err # NoErr
            THEN Fail(Wrap("failed to obtain prometheus stats", metricStats.err))
            ELSE Ret(Some([cs EXCEPT !.Cpu = cpuStats.val,
                                     !.Memory = memoryStats.val,
                                     !.Process = processStats.val,
                                     !.PrometheusMetric = metricStats.val]))

\* ------------------------------------------------------------------ inputs

ContainerIDs == {"c1", "c2", "c3"}

\* sample timestamps, in nanoseconds
MaxTime == 1

Timestamps == 0..MaxTime

\* cumulative cpu counters
MaxUsage == 2

Usages == 0..MaxUsage

\* throttled time in nanoseconds: one and a half seconds
ThrottledTimes == {1500000000}

\* *v1.CPUStat
CPUv1 ==
    {Nil} \cup
    {Some([Usage |-> u, Throttling |-> t]) :
        u \in {Nil} \cup {Some([Total |-> n, Kernel |-> 0, User |-> n]) : n \in Usages},
        t \in {Nil} \cup {Some([ThrottledPeriods |-> 1, ThrottledTime |-> tt]) :
                              tt \in ThrottledTimes}}

\* *v2.CPUStat
CPUv2 ==
    {Nil} \cup
    {Some([UsageUsec |-> n, UserUsec |-> n, SystemUsec |-> 0, NrPeriods |-> 1,
           NrThrottled |-> tt]) : n \in Usages, tt \in ThrottledTimes}

\* *v1.MemoryStat with the given usage, inactive file bytes and limit
MemoryV1(usage, inactive, limit) ==
    [Usage             |-> Some([Usage |-> usage, Limit |-> limit,
                                 Failcnt |-> U64Zero, Max |-> usage]),
     TotalInactiveFile |-> inactive,
     TotalRSS          |-> U64FromNat(1),
     TotalPgFault      |-> U64FromNat(2),
     TotalPgMajFault   |-> U64FromNat(3),
     Cache             |-> U64FromNat(4)]

\* *v2.MemoryStat with the given usage, inactive file bytes and limit
MemoryV2(usage, inactive, limit) ==
    [Usage        |-> usage,
     InactiveFile |-> inactive,
     UsageLimit   |-> limit,
     Anon         |-> U64FromNat(1),
     Pgfault      |-> U64FromNat(2),
     Pgmajfault   |-> U64FromNat(3),
     File         |-> U64FromNat(4),
     Cache        |-> U64FromNat(4)]

\* 500 MB used, 100 MB of it inactive file pages
Mem500MB == U64FromNat(500000000)

Mem100MB == U64FromNat(100000000)

Mem1GB == U64FromNat(1000000000)

MemV1 ==
    {Nil,
     Some([MemoryV1(Mem500MB, Mem100MB, Mem1GB) EXCEPT !.Usage = Nil]),
     Some(MemoryV1(Mem500MB, Mem100MB, Mem1GB))}

MemV2 == {Nil, Some(MemoryV2(Mem500MB, Mem100MB, Mem1GB))}

\* *v1.PidsStat and *v2.PidsStat
PidsSet == {Nil, Some([Limit |-> 0, Current |-> 5])}

\* what stats.Data can hold: a payload of one of the two supported types, a
\* payload of another registered type, or bytes that do not decode
Payloads ==
    {[kind |-> "v1", CPU |-> c, Memory |-> m, Pids |-> p] :
        c \in CPUv1, m \in MemV1, p \in PidsSet} \cup
    {[kind |-> "v2", CPU |-> c, Memory |-> m, Pids |-> p] :
        c \in CPUv2, m \in MemV2, p \in PidsSet} \cup
    {[kind |-> "other", CPU |-> Nil, Memory |-> Nil, Pids |-> Nil],
     [kind |-> "undecodable", CPU |-> Nil, Memory |-> Nil, Pids |-> Nil]}

\* *types.Metric
Metrics ==
    {Nil} \cup {Some([Data |-> d, Timestamp |-> t]) : d \in Payloads, t \in Timestamps}

\* containerstore.Metadata of a container
Meta(id) ==
    [ID |-> id, Metadata |-> [Name |-> id, Attempt |-> 0],
     Labels |-> {<<"app", id>>}, Annotations |-> {}]

\* the snapshot store: c1 has a snapshot, c2 and c3 have none yet
Snapshots ==
    [id \in ContainerIDs |->
        IF id = "c1" THEN Some([Size |-> 4096, Inodes |-> 7, Timestamp |-> 1]) ELSE Nil]

\* the container store: c1 and c2 are known and have no Stats yet, c3 is
\* a container that was removed
Containers ==
    [id \in ContainerIDs |-> IF id = "c3" THEN Nil ELSE Some([Stats |-> Nil])]

\* ------------------------------------------------------------------ state

VARIABLES
    service,        \* which CRI implementation runs: "server" or "sbserver"
    containerStore, \* c.containerStore: id -> the container record, with its Stats
    sandboxStore,   \* c.sandboxStore: id -> the sandbox record
    snapshotStore,  \* c.snapshotStore
    call,           \* the collection call made last: [op, ID, stats]
    out,            \* its outcome: [panic, err, val]
    procs,          \* the goroutines inside generatedUnstructuredContainerMetrics
    listCall,       \* the ListPodSandboxMetrics call made last
    listOut,        \* its outcome
    memCall,        \* the arguments of a memoryContainerStats call
    memOut          \* its outcome, Nil before the call

collectVars == <<service, containerStore, sandboxStore, snapshotStore, call, out>>

vars == <<service, containerStore, sandboxStore, snapshotStore, call, out,
          procs, listCall, listOut, memCall, memOut>>

NoCall == [op |-> "none", ID |-> "", stats |-> Nil]

\* a goroutine outside any call
IdleProc ==
    [pc |-> "idle", ID |-> "", stats |-> Nil, cs |-> Nil, oldStats |-> Nil, out |-> Ret(Nil)]

Procs == {"g1", "g2"}

NoList == [sandboxes |-> <<>>, env |-> <<>>]

\* no collection call was made
CollectIdle ==
    /\ service = "sbserver"
    /\ containerStore = Containers
    /\ sandboxStore = [id \in {} |-> Nil]
    /\ snapshotStore = Snapshots
    /\ call = NoCall
    /\ out = Ret(Nil)

ConcIdle == procs = [p \in Procs |-> IdleProc]

ListIdle == listCall = NoList /\ listOut = Ret(Nil)

MemIdle == memCall = Nil /\ memOut = Nil

Init ==
    /\ service \in {"server", "sbserver"}
    /\ containerStore = Containers
    /\ sandboxStore = [id \in {} |-> Nil]
    /\ snapshotStore = Snapshots
    /\ call = NoCall
    /\ out = Ret(Nil)
    /\ ConcIdle
    /\ ListIdle
    /\ MemIdle

\* server: one collection call; a panic ends the process
ContainerMetrics ==
    /\ service = "server"
    /\ ~out.panic
    /\ \E id \in ContainerIDs, stats \in Metrics :
        /\ call' = [op |-> "containerMetrics", ID |-> id, stats |-> stats]
        /\ out' = containerMetrics(snapshotStore, Meta(id), stats)
    /\ UNCHANGED <<service, containerStore, sandboxStore, snapshotStore>>
    /\ UNCHANGED <<procs, listCall, listOut, memCall, memOut>>

\* sbserver: one collection call, with the Stats it leaves in the stores
ContainerUnstructuredMetrics ==
    /\ service = "sbserver"
    /\ ~out.panic
    /\ \E id \in ContainerIDs, stats \in Metrics :
        LET o == containerUnstructuredMetrics(containerStore, sandboxStore, snapshotStore,
                                              Meta(id), stats)
        IN  /\ call' = [op |-> "containerUnstructuredMetrics", ID |-> id, stats |-> stats]
            /\ out' = [panic |-> o.panic, err |-> o.err, val |-> o.val]
            /\ containerStore' = o.containerStore
            /\ sandboxStore' = o.sandboxStore
    /\ UNCHANGED <<service, snapshotStore>>
    /\ UNCHANGED <<procs, listCall, listOut, memCall, memOut>>

Next == ContainerMetrics \/ ContainerUnstructuredMetrics

Spec == Init /\ [][Next]_vars

\* ------------------------------------------------------------------ memory samples

\* how far the sampled values spread around 0, 1<<62 and 1<<64
MemSpread == 1

MemValues ==
    {U64FromNat(n) : n \in 0..MemSpread} \cup
    {U64Sub(maxMemorySize, U64FromNat(n)) : n \in 0..MemSpread} \cup
    {U64Add(maxMemorySize, U64FromNat(n)) : n \in 0..MemSpread} \cup
    {U64Sub(U64Zero, U64FromNat(n)) : n \in 1..MemSpread} \cup
    {U64Add(maxMemorySize, maxMemorySize), Mem500MB}

MemPayloads ==
    {[kind |-> "v1", CPU |-> Nil, Memory |-> Some(MemoryV1(u, i, l)), Pids |-> Nil] :
        u \in MemValues, i \in MemValues, l \in MemValues} \cup
    {[kind |-> "v2", CPU |-> Nil, Memory |-> Some(MemoryV2(u, i, l)), Pids |-> Nil] :
        u \in MemValues, i \in MemValues, l \in MemValues} \cup
    {[kind |-> k, CPU |-> Nil, Memory |-> m, Pids |-> Nil] :
        k \in {"v1"}, m \in MemV1 \ {Some(MemoryV1(Mem500MB, Mem100MB, Mem1GB))}} \cup
    {[kind |-> "v2", CPU |-> Nil, Memory |-> Nil, Pids |-> Nil]}

InitMem ==
    /\ memCall \in {Some([ID |-> "c1", stats |-> s, timestamp |-> 0]) : s \in MemPayloads}
    /\ memOut = Nil
    /\ CollectIdle
    /\ ConcIdle
    /\ ListIdle

\* the extractor applied to the sample drawn
MemoryContainerStats ==
    /\ memOut = Nil
    /\ memOut' = Some(memoryContainerStats(memCall[1].ID, memCall[1].stats,
                                           memCall[1].timestamp))
    /\ UNCHANGED <<memCall, procs, listCall, listOut>>
    /\ UNCHANGED collectVars

NextMem == MemoryContainerStats

SpecMem == InitMem /\ [][NextMem]_vars

\* ------------------------------------------------------------------ listing

SandboxIDs == {"s1", "s2", "s3", "s4"}

\* how many sandboxes the store holds at most
MaxSandboxes == 3

\* what metricsForSandbox and podSandboxMetrics do for one sandbox: both
\* succeed, the first fails, or the second fails
ItemOutcomes == {"ok", "metrics fail", "decode fail"}

\* metricsForSandbox(sandbox): the raw metric of the sandbox, or an error
metricsForSandbox(sandbox, env) ==
    IF env[sandbox] = "metrics fail" THEN Fail(<<"task not found">>)
    ELSE Ret(Some([ID |-> sandbox]))

\* c.podSandboxMetrics(ctx, sandbox, metrics): the sandbox's metrics, or an error
podSandboxMetrics(sandbox, metrics, env) ==
    IF env[sandbox] = "decode fail" THEN Fail(<<"unexpected metrics type">>)
    ELSE Ret(Some([PodSandboxId |-> sandbox, Metrics |-> metrics]))

\* fmt.Errorf("msg %q: %w", id, err)
WrapID(msg, id, e) == <<msg, id>> \o e

RECURSIVE ListLoop_SkipFailed(_, _, _)
\* the loop with `continue` in place of the two returns
ListLoop_SkipFailed(sandboxes, env, PodMetrics) ==
    IF sandboxes = <<>> THEN Ret(Some([PodMetrics |-> PodMetrics]))
    ELSE
    LET sandbox == Head(sandboxes)
        metrics == metricsForSandbox(sandbox, env)
        sandboxMetrics == podSandboxMetrics(sandbox, metrics.val, env)
    IN  IF metrics.err # NoErr \/ sandboxMetrics.err # NoErr
        THEN ListLoop_SkipFailed(Tail(sandboxes), env, PodMetrics)
        ELSE ListLoop_SkipFailed(Tail(sandboxes), env,
                                 Append(PodMetrics, sandboxMetrics.val))

RECURSIVE ListLoop(_, _, _)
\* for _, sandbox := range sandboxes, over what is left of the range, with the
\* PodMetrics appended so far
ListLoop(sandboxes, env, PodMetrics) ==
    IF sandboxes = <<>> THEN Ret(Some([PodMetrics |-> PodMetrics]))
    ELSE
    LET sandbox == Head(sandboxes)
        metrics == metricsForSandbox(sandbox, env)
        sandboxMetrics == podSandboxMetrics(sandbox, metrics.val, env)
    IN  IF metrics.err # NoErr
        THEN Fail(WrapID("failed to obtain metrics for sandbox", sandbox, metrics.err))
        ELSE IF sandboxMetrics.err # NoErr
        THEN Fail(WrapID("failed to decode sandbox container metrics for sandbox",
                         sandbox, sandboxMetrics.err))
        ELSE ListLoop(Tail(sandboxes), env, Append(PodMetrics, sandboxMetrics.val))

\* sandboxes is what c.sandboxStore.List() returned
ListPodSandboxMetrics(sandboxes, env) == ListLoop(sandboxes, env, <<>>)

\* the sequences without repetition over the set S
Orderings(S) ==
    {q \in [1..Cardinality(S) -> S] : \A i, j \in 1..Cardinality(S) : q[i] = q[j] => i = j}

\* c.sandboxStore.List(): the sandboxes of the store, in any order
StoreList(store) == Orderings({id \in DOMAIN store : store[id] # Nil})

InitList ==
    /\ \E S \in SUBSET SandboxIDs :
        /\ Cardinality(S) <= MaxSandboxes
        /\ sandboxStore = [id \in SandboxIDs |->
                              IF id \in S THEN Some([Stats |-> Nil]) ELSE Nil]
    /\ service = "sbserver"
    /\ containerStore = Containers
    /\ snapshotStore = Snapshots
    /\ call = NoCall
    /\ out = Ret(Nil)
    /\ ListIdle
    /\ ConcIdle
    /\ MemIdle

\* one ListPodSandboxMetrics request
ListPodSandboxMetricsCall ==
    /\ \E sandboxes \in StoreList(sandboxStore) :
       \E env \in [{sandboxes[i] : i \in 1..Len(sandboxes)} -> ItemOutcomes] :
        /\ listCall' = [sandboxes |-> sandboxes, env |-> env]
        /\ listOut' = ListPodSandboxMetrics(sandboxes, env)
    /\ UNCHANGED <<procs, memCall, memOut>>
    /\ UNCHANGED collectVars

NextList == ListPodSandboxMetricsCall

SpecList == InitList /\ [][NextList]_vars

\* ------------------------------------------------------------------ concurrent calls

\* a v1 payload with every sub-structure present
FullV1 ==
    [kind   |-> "v1",
     CPU    |-> Some([Usage      |-> Some([Total |-> 1, Kernel |-> 0, User |-> 1]),
                      Throttling |-> Some([ThrottledPeriods |-> 1,
                                           ThrottledTime |-> 1500000000])]),
     Memory |-> Some(MemoryV1(Mem500MB, Mem100MB, Mem1GB)),
     Pids   |-> Some([Limit |-> 0, Current |-> 5])]

\* the samples the concurrent calls are given
ConcMetrics ==
    {Nil,
     Some([Data |-> FullV1, Timestamp |-> 0]),
     Some([Data |-> [kind |-> "other", CPU |-> Nil, Memory |-> Nil, Pids |-> Nil],
           Timestamp |-> 0]),
     Some([Data |-> [kind |-> "undecodable", CPU |-> Nil, Memory |-> Nil, Pids |-> Nil],
           Timestamp |-> 0])}

InitConc ==
    /\ service = "sbserver"
    /\ containerStore = Containers
    /\ sandboxStore = [id \in {} |-> Nil]
    /\ snapshotStore = Snapshots
    /\ call = NoCall
    /\ out = Ret(Nil)
    /\ ConcIdle
    /\ ListIdle
    /\ MemIdle

\* a panic in any goroutine ends the process
Alive == \A q \in Procs : ~procs[q].out.panic

ConcUnchanged == UNCHANGED <<service, sandboxStore, snapshotStore, call, out,
                             listCall, listOut, memCall, memOut>>

\* lines 81-102 of generatedUnstructuredContainerMetrics in goroutine p: cs is
\* filled in and the payload decoded
ConcBegin(p) ==
    /\ Alive
    /\ procs[p].pc = "idle"
    /\ \E id \in ContainerIDs, stats \in ConcMetrics :
        LET cs == FileSystemStatsOf(snapshotStore, Meta(id))
            s == UnmarshalAny(stats[1].Data)
            started == [pc |-> "idle", ID |-> id, stats |-> stats, cs |-> Some(cs),
                        oldStats |-> Nil, out |-> Ret(Nil)]
        IN  procs' = [procs EXCEPT ![p] =
                IF stats = Nil THEN [started EXCEPT !.out = Ret(Some(cs))]
                ELSE IF s.err # NoErr
                THEN [started EXCEPT
                         !.out = Fail(Wrap("failed to extract container metrics", s.err))]
                ELSE [started EXCEPT !.pc = "set_read"]]
    /\ UNCHANGED containerStore
    /\ ConcUnchanged

\* lines 175-189 of setContainerStats in goroutine p: the store's Get
ConcSetRead(p) ==
    /\ Alive
    /\ procs[p].pc = "set_read"
    /\ LET r == setContainerStats_read(containerStore, sandboxStore, procs[p].ID, FALSE)
       IN  procs' = [procs EXCEPT ![p] =
                IF r.err # NoErr
                THEN [@ EXCEPT !.pc = "idle",
                               !.out = Fail(Wrap("failed to set container stats", r.err))]
                ELSE [@ EXCEPT !.pc = "set_write", !.oldStats = r.val]]
    /\ UNCHANGED containerStore
    /\ ConcUnchanged

\* lines 191-206 of setContainerStats in goroutine p: the store's
\* UpdateContainerStats when the Stats read were nil
ConcSetWrite(p) ==
    /\ Alive
    /\ procs[p].pc = "set_write"
    /\ LET w == setContainerStats_write(containerStore, sandboxStore, procs[p].ID, FALSE,
                                        procs[p].cs[1], procs[p].oldStats)
       IN  /\ containerStore' = w.containerStore
           /\ procs' = [procs EXCEPT ![p] =
                IF w.err # NoErr
                THEN [@ EXCEPT !.pc = "idle",
                               !.out = Fail(Wrap("failed to set container stats", w.err))]
                ELSE [@ EXCEPT !.pc = "extract"]]
    /\ ConcUnchanged

\* lines 109-121 of generatedUnstructuredContainerMetrics in goroutine p
ConcExtract(p) ==
    /\ Alive
    /\ procs[p].pc = "extract"
    /\ procs' = [procs EXCEPT ![p] =
            [@ EXCEPT !.pc = "idle",
                      !.out = ExtractInto(procs[p].cs[1], Meta(procs[p].ID),
                                          UnmarshalAny(procs[p].stats[1].Data).val,
                                          procs[p].stats[1].Timestamp)]]
    /\ UNCHANGED containerStore
    /\ ConcUnchanged

NextConc ==
    \E p \in Procs : ConcBegin(p) \/ ConcSetRead(p) \/ ConcSetWrite(p) \/ ConcExtract(p)

SpecConc == InitConc /\ [][NextConc]_vars

\* ------------------------------------------------------------------ claims

\* the memory sample of the call drawn, once memoryContainerStats has returned
\* a record for it
MemSampled == memOut # Nil /\ memOut[1].val # Nil

\* the declared limit of the sample: Usage.Limit (v1) or UsageLimit (v2)
MemLimit ==
    IF memCall[1].stats.kind = "v1"
    THEN memCall[1].stats.Memory[1].Usage[1].Limit
    ELSE memCall[1].stats.Memory[1].UsageLimit

TwoTo62 == <<16384, 0, 0, 0>>

\* C10 as stated: for every memory sample in either encoding whose declared
\* limit is >= 2^62, exactly 2^62 included, the reported availableBytes is 0.
C10_ZeroAvailableFrom2To62 ==
    (MemSampled /\ ~U64Less(MemLimit, TwoTo62))
        => memOut[1].val[1].AvailableBytes = Some(U64Zero)

\* C10 amended: a limit strictly above 2^62 is unlimited and gives
\* availableBytes = 0 whatever the working set; a limit up to and including
\* 2^62 is a real limit, and availableBytes + workingSetBytes = limit
\* modulo 2^64.
C10_UnlimitedAbove2To62 ==
    MemSampled =>
        LET r == memOut[1].val[1]
        IN  IF U64Less(TwoTo62, MemLimit)
            THEN r.AvailableBytes = Some(U64Zero)
            ELSE U64Add(r.AvailableBytes[1], r.WorkingSetBytes[1]) = MemLimit

\* a limit of 2^62 + 1 with a non-zero working set reports 0 available bytes
C10_Witness ==
    /\ MemSampled
    /\ MemLimit = U64Add(TwoTo62, U64FromNat(1))
    /\ memOut[1].val[1].WorkingSetBytes # Some(U64Zero)
    /\ memOut[1].val[1].AvailableBytes = Some(U64Zero)

\* a collection call was made and its payload decoded to a Go value
Decoded == call.op # "none" /\ call.stats # Nil /\ call.stats[1].Data.kind # "undecodable"

\* the Go type of the decoded payload is one of the two supported ones
Supported == call.stats[1].Data.kind \in {"v1", "v2"}

\* the innermost error of the chain is the one the type switches return
IsUnsupported(e) == e # NoErr /\ e[Len(e)] = "unexpected metrics type"

FirstFailed ==
    LET failed == {i \in 1..Len(listCall.sandboxes) :
                      listCall.env[listCall.sandboxes[i]] # "ok"}
    IN  IF failed = {} THEN 0
        ELSE CHOOSE i \in failed : \A j \in failed : i <= j

\* a listing was made (of at least one sandbox, or the response of an empty store)
Listed == listCall.sandboxes # <<>> \/ listOut.val # Nil

\* C7: the listing is fail-fast: the first failing sandbox, in iteration order,
\* ends it with one wrapped error naming that sandbox and a nil response;
\* when none fails the response holds one entry per sandbox, in iteration order.
C7_ListFailFast ==
    Listed =>
        IF FirstFailed = 0
        THEN /\ listOut.err = NoErr
             /\ listOut.val # Nil
             /\ Len(listOut.val[1].PodMetrics) = Len(listCall.sandboxes)
             /\ \A i \in 1..Len(listCall.sandboxes) :
                    listOut.val[1].PodMetrics[i][1].PodSandboxId = listCall.sandboxes[i]
        ELSE /\ listOut.val = Nil
             /\ Len(listOut.err) >= 3
             /\ listOut.err[1] \in {"failed to obtain metrics for sandbox",
                                    "failed to decode sandbox container metrics for sandbox"}
             /\ listOut.err[2] = listCall.sandboxes[FirstFailed]

\* the second of three sandboxes failed after the first had been collected
C7_Witness ==
    /\ Len(listCall.sandboxes) = 3
    /\ FirstFailed = 2
    /\ listOut.val = Nil
    /\ listOut.err[2] = listCall.sandboxes[2]

\* the Stats pointer of container id in the store, nil when it has none
StatsOf(store, id) == IF store[id] = Nil THEN Nil ELSE store[id][1].Stats

\* the payload of collection call c carries a cumulative cpu counter
HasSample(c) ==
    /\ c.op # "none"
    /\ c.stats # Nil
    /\ \/ /\ c.stats[1].Data.kind = "v1"
          /\ c.stats[1].Data.CPU # Nil
          /\ c.stats[1].Data.CPU[1].Usage # Nil
       \/ /\ c.stats[1].Data.kind = "v2"
          /\ c.stats[1].Data.CPU # Nil

\* the cumulative usage of that sample, in core-nanoseconds
SampleValue(c) ==
    IF c.stats[1].Data.kind = "v1"
    THEN c.stats[1].Data.CPU[1].Usage[1].Total
    ELSE c.stats[1].Data.CPU[1].UsageUsec * 1000

\* its timestamp, in nanoseconds
SampleTime(c) == c.stats[1].Timestamp

\* the call returned a record
Succeeded(o) == ~o.panic /\ o.err = NoErr /\ o.val # Nil

\* n as <<n div 1e9, n mod 1e9>>
InBase1e9(n) == <<n \div 1000000000, n % 1000000000>>

\* (d * 1e9) div t as <<quotient div 1e9, quotient mod 1e9>>, for 0 < t <= 3:
\* d = q*t + r with r < t gives (d * 1e9) div t = q * 1e9 + (r * 1e9) div t
RateInBase1e9(d, t) == <<d \div t, ((d % t) * 1000000000) \div t>>

\* C1: for consecutive samples a and b of one container with b.timestamp >
\* a.timestamp and b.value >= a.value, the call for b reports
\* usageNanoCores = (b.value - a.value) * 1e9 / (b.timestamp - a.timestamp).
C1_RateOfConsecutiveSamples ==
    [][(/\ HasSample(call) /\ Succeeded(out)
        /\ HasSample(call') /\ Succeeded(out')
        /\ call'.ID = call.ID
        /\ SampleTime(call') > SampleTime(call)
        /\ SampleValue(call') >= SampleValue(call))
       => /\ out'.val[1].Cpu # Nil
          /\ out'.val[1].Cpu[1].UsageNanoCores # Nil
          /\ InBase1e9(out'.val[1].Cpu[1].UsageNanoCores[1])
                = RateInBase1e9(SampleValue(call') - SampleValue(call),
                                SampleTime(call') - SampleTime(call))]_vars

\* C2: the first collection call for a container, which has no Stats in the
\* store yet, returns the cumulative usageCoreNanoSeconds of its sample and
\* no usageNanoCores.
C2_FirstCallHasNoRate ==
    [][(/\ call = NoCall
        /\ StatsOf(containerStore, call'.ID) = Nil
        /\ HasSample(call') /\ Succeeded(out'))
       => /\ out'.val[1].Cpu # Nil
          /\ out'.val[1].Cpu[1].UsageCoreNanoSeconds = Some(SampleValue(call'))
          /\ out'.val[1].Cpu[1].UsageNanoCores = Nil]_vars

\* the Stats of container id in the store are the sample of call c
CachedSampleIs(store, id, c) ==
    /\ StatsOf(store, id) # Nil
    /\ StatsOf(store, id)[1].UsageCoreNanoSeconds = SampleValue(c)
    /\ StatsOf(store, id)[1].Timestamp = SampleTime(c)

\* C3: counter reset: when sample b follows the cached sample a of the same
\* container with b.value < a.value, the call reports no rate and the
\* container's Stats in the store are b afterwards.
C3_CounterResetRebases ==
    [][(/\ service = "sbserver"
        /\ HasSample(call) /\ Succeeded(out)
        /\ HasSample(call') /\ Succeeded(out')
        /\ call'.ID = call.ID
        /\ SampleValue(call') < SampleValue(call))
       => /\ out'.val[1].Cpu # Nil
          /\ out'.val[1].Cpu[1].UsageNanoCores = Nil
          /\ CachedSampleIs(containerStore', call'.ID, call')]_vars

\* C4: the Stats of a container in the store are the sample (cumulative value
\* and timestamp) of the most recent successful collection call for it.
C4_CacheHoldsLastSample ==
    (service = "sbserver" /\ HasSample(call) /\ Succeeded(out))
        => CachedSampleIs(containerStore, call.ID, call)

\* C5: a collection call that returns an error commits no update of the
\* Stats in the store, so Stats exist only after a successful call.
C5_ErrorCommitsNothing ==
    [][(service = "sbserver" /\ out'.err # NoErr)
          => containerStore' = containerStore]_vars

\* the container of the call made last is in the container store
InStore == containerStore[call.ID] # Nil

\* C8: for a payload of one of the two supported variants, a missing optional
\* sub-structure produces neither an error nor a fault, and the record
\* returned omits the sub-record.
C8_MissingSubStructureIsNoFault ==
    (Decoded /\ Supported /\ InStore) =>
        /\ ~out.panic
        /\ out.err = NoErr
        /\ out.val # Nil
        /\ call.op = "containerMetrics" =>
              /\ call.stats[1].Data.CPU = Nil => out.val[1].Cpu = Nil
              /\ call.stats[1].Data.Memory = Nil => out.val[1].Memory = Nil
              /\ call.stats[1].Data.Pids = Nil => out.val[1].Process = Nil

\* C6: the read-previous / decide / write-new sequence of setContainerStats is
\* atomic with respect to a concurrent call on the same container: whenever a
\* call acts on the Stats it read, the store still holds what it read.
C6_AtomicReadModifyWrite ==
    [][\A p \in Procs :
          (procs[p].pc = "set_write" /\ procs'[p].pc # "set_write")
              => StatsOf(containerStore, procs[p].ID) = procs[p].oldStats]_vars

\* C11: when the timestamp of the current sample is less than or equal to
\* that of the previous sample of the same container (duplicate sample or
\* clock skew), the call reports no usageNanoCores.
C11_NonPositiveIntervalHasNoRate ==
    [][(/\ HasSample(call) /\ Succeeded(out)
        /\ HasSample(call') /\ Succeeded(out')
        /\ call'.ID = call.ID
        /\ SampleTime(call') <= SampleTime(call))
       => /\ out'.val[1].Cpu # Nil
          /\ out'.val[1].Cpu[1].UsageNanoCores = Nil]_vars

\* C12: a container without a record in the snapshot store is no error of the
\* collection call: the record returned has a complete WritableLayer with
\* usedBytes = 0 and inodesUsed = 0; with a record in the snapshot store they
\* are the snapshot's size and inode count.
C12_SnapshotMissReportsZeros ==
    call.op # "none" =>
        LET sn == snapshotStore[call.ID]
        IN  /\ call.stats = Nil => Succeeded(out)
            /\ Succeeded(out) =>
                 LET w == out.val[1].WritableLayer
                 IN  /\ w # Nil
                     /\ w[1].FsId = Some([Mountpoint |-> imageFSPath])
                     /\ w[1].UsedBytes = Some(IF sn = Nil THEN 0 ELSE sn[1].Size)
                     /\ w[1].InodesUsed = Some(IF sn = Nil THEN 0 ELSE sn[1].Inodes)

\* a sample of c2, which has no snapshot, was collected and reports zeros
C12_Witness ==
    /\ call.ID = "c2"
    /\ snapshotStore["c2"] = Nil
    /\ call.stats # Nil
    /\ Succeeded(out)
    /\ out.val[1].WritableLayer[1].UsedBytes = Some(0)
    /\ out.val[1].WritableLayer[1].InodesUsed = Some(0)

\* the usage counter of the sample: Usage.Usage (v1) or Usage (v2)
MemUsage ==
    IF memCall[1].stats.kind = "v1"
    THEN memCall[1].stats.Memory[1].Usage[1].Usage
    ELSE memCall[1].stats.Memory[1].Usage

\* its inactive file bytes: TotalInactiveFile (v1) or InactiveFile (v2)
MemInactive ==
    IF memCall[1].stats.kind = "v1"
    THEN memCall[1].stats.Memory[1].TotalInactiveFile
    ELSE memCall[1].stats.Memory[1].InactiveFile

\* C13: for every memory sample in both encodings workingSetBytes is
\* max(0, usage - inactiveFile): usage - inactiveFile when the inactive file
\* bytes are below the usage, 0 otherwise; so it never exceeds the usageBytes
\* of the same record and the subtraction never wraps around.
C13_WorkingSetWithinUsage ==
    MemSampled =>
        LET r == memOut[1].val[1]
            ws == r.WorkingSetBytes[1]
        IN  /\ r.UsageBytes = Some(MemUsage)
            /\ U64Leq(ws, r.UsageBytes[1])
            /\ IF U64Less(MemInactive, MemUsage)
               THEN U64Add(ws, MemInactive) = MemUsage
               ELSE ws = U64Zero

\* a v1 sample whose inactive file bytes exceed its non-zero usage reports a
\* working set of 0
C13_Witness ==
    /\ MemSampled
    /\ memCall[1].stats.kind = "v1"
    /\ MemUsage # U64Zero
    /\ U64Less(MemUsage, MemInactive)
    /\ memOut[1].val[1].WorkingSetBytes = Some(U64Zero)

\* C14: for a v1 payload with CPU usage present, cpuContainerStats reports
\* the throttled seconds as the throttled-time counter (nanoseconds) divided
\* by 1e9 with integer division and the cumulative usage as the total usage
\* counter, and generatedCPUContainerMetrics reports the same throttled
\* seconds for the same payload.
C14_ThrottledSecondsAgree ==
    (/\ call.op = "containerMetrics"
     /\ HasSample(call)
     /\ call.stats[1].Data.kind = "v1"
     /\ Succeeded(out)) =>
        LET cpu == call.stats[1].Data.CPU[1]
            g == generatedCPUContainerMetrics(call.ID, FALSE, call.stats[1].Data,
                                              call.stats[1].Timestamp)
        IN  /\ out.val[1].Cpu # Nil
            /\ out.val[1].Cpu[1].UsageCoreNanoSeconds = Some(cpu.Usage[1].Total)
            /\ out.val[1].Cpu[1].CpuCfsThrottledSecondsTotal
                   = Some(cpu.Throttling[1].ThrottledTime \div 1000000000)
            /\ g.val # Nil
            /\ Some(g.val[1].CpuCfsThrottledSecondsTotal)
                   = out.val[1].Cpu[1].CpuCfsThrottledSecondsTotal

\* C15: for every memory sample in either encoding whose limit is a real
\* limit (below 2^62, so not unlimited under either reading of the bound),
\* availableBytes = limit - workingSetBytes is computed without unsigned
\* 64-bit wrap-around: availableBytes <= limit, also when the working set
\* exceeds the limit.
C15_AvailableWithinLimit ==
    (MemSampled /\ U64Less(MemLimit, TwoTo62))
        => U64Leq(memOut[1].val[1].AvailableBytes[1], MemLimit)

\* C16: a collection call made with no raw sample (stats is nil) returns,
\* without error, a record holding only the attributes and the writable-layer
\* stats, with no CPU, memory or process sub-record, and leaves the Stats of
\* every container in the stores as they were.
C16_NilMetricReturnsBaseRecord ==
    [][(call'.op # "none" /\ call'.stats = Nil)
       => /\ Succeeded(out')
          /\ out'.val[1].Attributes = Some(AttributesOf(Meta(call'.ID)))
          /\ out'.val[1].WritableLayer # Nil
          /\ out'.val[1].Cpu = Nil
          /\ out'.val[1].Memory = Nil
          /\ out'.val[1].Process = Nil
          /\ containerStore' = containerStore
          /\ sandboxStore' = sandboxStore]_vars

====
